---- MODULE Spec2Model ----
(***************************************************************************)
(* Model of the cfgo configuration store (package cfgo): the layered       *)
(* loader (loadEnvFiles / loadEnvFile / loadSystemEnv), the store guarded  *)
(* by a sync.RWMutex (Get and the typed getters, Set, Has, All,            *)
(* GetStringMap, Reload, AddSource) and the goroutines calling it.         *)
(*                                                                         *)
(* Go strings are sequences of one-character strings, so that trimming,    *)
(* splitting and prefix tests are computed as the code computes them.      *)
(* Go maps are functions whose DOMAIN is the set of keys present.          *)
(***************************************************************************)
EXTENDS Integers, Sequences, FiniteSets, TLC

(***************************************************************************)
(* Bounds of the model                                                     *)
(***************************************************************************)
NumProcs == 2

MaxSources == 2

\* total number of calls and world changes in one behaviour
MaxCalls == 3

\* longest string value given to GetStringSlice
MaxLen == 3

\* longest line of an environment file given to the parser on its own
MaxLine == 6

Procs == 1..NumProcs

(***************************************************************************)
(* Strings                                                                 *)
(***************************************************************************)
WhiteSpace == {" ", "\t", "\r", "\n"}

QuoteCutset == {"\"", "'"}

RECURSIVE TrimLeft(_, _)
TrimLeft(s, cutset) ==
    IF s # <<>> /\ Head(s) \in cutset THEN TrimLeft(Tail(s), cutset) ELSE s

RECURSIVE TrimRight(_, _)
TrimRight(s, cutset) ==
    IF s # <<>> /\ s[Len(s)] \in cutset
    THEN TrimRight(SubSeq(s, 1, Len(s) - 1), cutset)
    ELSE s

\* strings.Trim(s, cutset): all leading and trailing characters of cutset
Trim(s, cutset) == TrimRight(TrimLeft(s, cutset), cutset)

\* strings.TrimSpace
TrimSpace(s) == Trim(s, WhiteSpace)

\* strings.HasPrefix
HasPrefix(s, prefix) ==
    Len(s) >= Len(prefix) /\ SubSeq(s, 1, Len(prefix)) = prefix

\* strings.Index for a one-character separator; 0 when absent
Index(s, sep) ==
    IF \E i \in 1..Len(s) : s[i] = sep
    THEN CHOOSE i \in 1..Len(s) : s[i] = sep /\ \A j \in 1..(i - 1) : s[j] # sep
    ELSE 0

\* strings.SplitN(s, sep, 2)
SplitN2(s, sep) ==
    IF Index(s, sep) = 0
    THEN <<s>>
    ELSE <<SubSeq(s, 1, Index(s, sep) - 1), SubSeq(s, Index(s, sep) + 1, Len(s))>>

(***************************************************************************)
(* Values of type any held by the maps                                     *)
(***************************************************************************)
StrVal(s) == [t |-> "string", s |-> s]

IntVal(n) == [t |-> "int", n |-> n]

\* the nil interface value, which Get also returns for a miss
Nil == [t |-> "nil"]

EmptyMap == [k \in {} |-> Nil]

\* m[k] = v on a Go map
Put(m, k, v) == [x \in (DOMAIN m) \cup {k} |-> IF x = k THEN v ELSE m[x]]

\* delete(m, k)
Delete(m, k) == [x \in (DOMAIN m) \ {k} |-> m[x]]

\* a merge in which a key already present keeps its value
MergeKeepsExisting(dst, src) ==
    [x \in (DOMAIN dst) \cup (DOMAIN src) |-> IF x \in DOMAIN dst THEN dst[x] ELSE src[x]]

\* for k, v := range src { dst[k] = v }
MergeInto(dst, src) ==
    [x \in (DOMAIN dst) \cup (DOMAIN src) |-> IF x \in DOMAIN src THEN src[x] ELSE dst[x]]

(***************************************************************************)
(* The world outside the store: files of the working directory, the        *)
(* process environment and the behaviour of the external sources.          *)
(***************************************************************************)
kA == <<"A">>

kB == <<"B">>

kC == <<"C">>

kAppEnv == <<"A", "P", "P", "_", "E", "N", "V">>

fEnv == <<".", "e", "n", "v">>

fLocalEnv == <<".", "l", "o", "c", "a", "l", ".", "e", "n", "v">>

fDevEnv == <<".", "d", "e", "v", ".", "e", "n", "v">>

fProdEnv == <<".", "p", "r", "o", "d", ".", "e", "n", "v">>

\* a file that exists but cannot be opened (permissions, I/O fault)
Unreadable == "unreadable"

SourceIds == {"s1", "s2"}

\* the nil error
NoError == Nil

\* a non-nil error with the message msg
ErrVal(msg) == [t |-> "error", msg |-> msg]

\* World 1: the three file layers all define A and the environment
\* overrides B; APP_ENV=prod selects .prod.env, not .dev.env; comments,
\* blank and malformed lines, padded and quoted values; both sources load.
World1 ==
    [ fs |-> (fEnv :> << <<"#", " ", "c">>,
                         <<"A", "=", "a">>,
                         <<"A", "=", "b">>,
                         <<"B", "=", "b">>,
                         <<>>,
                         <<"n", "o", "e", "q">> >>)
          @@ (fLocalEnv :> << <<" ", "A", " ", "=", " ", "'", "l", "'", " ">>,
                              <<"C", "=", "l">> >>)
          @@ (fDevEnv :> << <<"A", "=", "x">> >>)
          @@ (fProdEnv :> << <<"A", "=", "\"", "d", "\"">> >>),
      environ |-> << <<"A", "P", "P", "_", "E", "N", "V", "=", "p", "r", "o", "d">>,
                     <<"B", "=", "e">> >>,
      src |-> [s \in SourceIds |->
                 CASE s = "s1" -> [err |-> NoError, data |-> (kA :> IntVal(7)) @@ (kC :> StrVal(<<"s">>))]
                   [] s = "s2" -> [err |-> NoError, data |-> (kA :> StrVal(<<"t">>))]] ]

\* World 2: an unreadable .env, no .local.env, APP_ENV set but empty (falls
\* back to .dev.env), no B anywhere, source s2 fails.
World2 ==
    [ fs |-> (fEnv :> Unreadable)
          @@ (fDevEnv :> << <<"A", "=", "p">>, <<"A", ".", "B", "=", "q">>, <<"=", "x">> >>)
          @@ (fProdEnv :> << <<"A", "=", "d">> >>),
      environ |-> << <<"A", "P", "P", "_", "E", "N", "V", "=">>,
                     <<"N", "O", "E", "Q">>,
                     <<"C", "=", "e", "=", "f">> >>,
      src |-> [s \in SourceIds |->
                 CASE s = "s1" -> [err |-> NoError, data |-> (kA :> IntVal(7)) @@ (kC :> StrVal(<<"s">>))]
                   [] s = "s2" -> [err |-> ErrVal("e2"), data |-> EmptyMap]] ]

Worlds == <<World1, World2>>

WorldIds == 1..Len(Worlds)

\* os.Getenv(name): value of the first entry NAME=value, "" when unset
Getenv(w, name) ==
    LET hits == {i \in 1..Len(w.environ) :
                    /\ Len(SplitN2(w.environ[i], "=")) = 2
                    /\ SplitN2(w.environ[i], "=")[1] = name}
    IN IF hits = {} THEN <<>>
       ELSE SplitN2(w.environ[CHOOSE i \in hits : \A j \in hits : i <= j], "=")[2]

(***************************************************************************)
(* Layered loader                                                          *)
(***************************************************************************)
\* body of the scanner loop of loadEnvFile for one line
loadLine(d, text) ==
    LET line == TrimSpace(text)
        parts == SplitN2(line, "=")
    IN IF line = <<>> \/ HasPrefix(line, <<"#">>) THEN d
       ELSE IF Len(parts) # 2 THEN d
       ELSE Put(d, TrimSpace(parts[1]), StrVal(Trim(TrimSpace(parts[2]), QuoteCutset)))

RECURSIVE loadLines(_, _)
loadLines(d, lines) ==
    IF lines = <<>> THEN d ELSE loadLines(loadLine(d, Head(lines)), Tail(lines))

\* loadEnvFile: a file that cannot be opened is skipped
loadEnvFile(d, w, filename) ==
    IF filename \notin DOMAIN w.fs \/ w.fs[filename] = Unreadable
    THEN d
    ELSE loadLines(d, w.fs[filename])

\* the name of the environment-specific file
envFileName(w) ==
    LET env == IF Getenv(w, kAppEnv) = <<>> THEN <<"d", "e", "v">> ELSE Getenv(w, kAppEnv)
    IN <<".">> \o env \o <<".", "e", "n", "v">>

\* the file layers loaded in the opposite order
loadEnvFilesReversed(d, w) ==
    loadEnvFile(loadEnvFile(loadEnvFile(d, w, envFileName(w)), w, fLocalEnv), w, fEnv)

loadEnvFiles(d, w) ==
    loadEnvFile(loadEnvFile(loadEnvFile(d, w, fEnv), w, fLocalEnv), w, envFileName(w))

RECURSIVE loadEnviron(_, _)
loadEnviron(d, environ) ==
    IF environ = <<>> THEN d
    ELSE LET parts == SplitN2(Head(environ), "=")
         IN loadEnviron(IF Len(parts) = 2 THEN Put(d, parts[1], StrVal(parts[2])) ELSE d,
                        Tail(environ))

loadSystemEnv(d, w) == loadEnviron(d, w.environ)

\* what New() leaves in c.data
NewData(w) == loadSystemEnv(loadEnvFiles(EmptyMap, w), w)

(***************************************************************************)
(* Calls made by the goroutines                                            *)
(***************************************************************************)
GetKeys == {kA, kB}

SetVals == {StrVal(<<"x">>), IntVal(7)}

Op(name, key, val, src) == [name |-> name, key |-> key, val |-> val, src |-> src]

NoOp == Op("none", <<>>, Nil, "")

OpSet ==
    {Op("Get", k, Nil, "") : k \in GetKeys}
    \cup {Op("Set", kA, v, "") : v \in SetVals}
    \cup {Op("Set", kB, StrVal(<<"x">>), ""), Op("GetString", kA, Nil, ""), Op("Has", kB, Nil, "")}
    \cup {Op("GetStringMap", kA, Nil, ""), Op("All", <<>>, Nil, ""), Op("Reload", <<>>, Nil, "")}
    \cup {Op("AddSource", <<>>, Nil, s) : s \in SourceIds}

\* the getters that parse the result of GetString
TypedOps == {"GetInt", "GetInt64", "GetFloat64", "GetBool", "GetDuration", "GetStringSlice"}

\* the getters built on GetString, GetString included
StringOps == {"GetString"} \cup TypedOps

ReadOps == {"Get", "Has", "All", "GetStringMap"} \cup StringOps

GetOps == {"Get"} \cup StringOps

\* strconv-style decimal form of a non-negative integer
RECURSIVE Itoa(_)
Itoa(n) ==
    LET digit == <<"0", "1", "2", "3", "4", "5", "6", "7", "8", "9">>[(n % 10) + 1]
    IN IF n < 10 THEN <<digit>> ELSE Itoa(n \div 10) \o <<digit>>

\* GetString applied to the value returned by Get
Sprintv(v) ==
    CASE v.t = "nil" -> <<>>
      [] v.t = "string" -> v.s
      [] v.t = "int" -> Itoa(v.n)

(***************************************************************************)
(* The conversions of the typed getters.  The values of the model are      *)
(* short strings of decimal digits, signs, letters, commas and blanks:     *)
(* numbers too large for 64 bits, fractions, exponents and the sub-second  *)
(* units of a duration do not occur among them.                            *)
(***************************************************************************)
BoolVal(b) == [t |-> "bool", b |-> b]

Int64Val(n) == [t |-> "int64", n |-> n]

\* a float64 holding the whole number n
FloatVal(n) == [t |-> "float64", n |-> n]

\* a time.Duration of n seconds
DurVal(n) == [t |-> "duration", secs |-> n]

SliceVal(q) == [t |-> "slice", elems |-> q]

Digits == <<"0", "1", "2", "3", "4", "5", "6", "7", "8", "9">>

IsDigit(c) == \E i \in 1..10 : Digits[i] = c

DigitVal(c) == (CHOOSE i \in 1..10 : Digits[i] = c) - 1

RECURSIVE DecVal(_)
DecVal(s) ==
    IF s = <<>> THEN 0 ELSE DecVal(SubSeq(s, 1, Len(s) - 1)) * 10 + DigitVal(s[Len(s)])

AllDigits(s) == s # <<>> /\ \A i \in 1..Len(s) : IsDigit(s[i])

Negative(s) == s # <<>> /\ s[1] = "-"

\* s without its leading sign
Unsigned(s) == IF s # <<>> /\ s[1] \in {"+", "-"} THEN Tail(s) ELSE s

\* i, _ := strconv.ParseInt(s, 10, 64): 0 when s is not a signed decimal
ParseInt(s) ==
    IF AllDigits(Unsigned(s))
    THEN IF Negative(s) THEN 0 - DecVal(Unsigned(s)) ELSE DecVal(Unsigned(s))
    ELSE 0

\* i, _ := strconv.Atoi(s)
Atoi(s) == ParseInt(s)

\* f, _ := strconv.ParseFloat(s, 64), for s a signed whole decimal or not a
\* number at all
ParseFloat(s) == ParseInt(s)

\* b, _ := strconv.ParseBool(s): false for the false forms and for an error
ParseBool(s) ==
    s \in {<<"1">>, <<"t">>, <<"T">>, <<"T", "R", "U", "E">>,
           <<"t", "r", "u", "e">>, <<"T", "r", "u", "e">>}

RECURSIVE LeadDigits(_)
LeadDigits(s) == IF s = <<>> \/ ~IsDigit(s[1]) THEN 0 ELSE 1 + LeadDigits(Tail(s))

RECURSIVE LeadNonDigits(_)
LeadNonDigits(s) == IF s = <<>> \/ IsDigit(s[1]) THEN 0 ELSE 1 + LeadNonDigits(Tail(s))

\* seconds in a unit of time.ParseDuration; 0 for what is not a unit
UnitSecs(u) ==
    CASE u = <<"s">> -> 1
      [] u = <<"m">> -> 60
      [] u = <<"h">> -> 3600
      [] OTHER -> 0

\* the seconds denoted by a sequence of number-unit groups, -1 when s is
\* not such a sequence
RECURSIVE DurSecs(_)
DurSecs(s) ==
    IF s = <<>>
    THEN 0
    ELSE LET nd == LeadDigits(s)
             rest == SubSeq(s, nd + 1, Len(s))
             nu == LeadNonDigits(rest)
             more == DurSecs(SubSeq(rest, nu + 1, Len(rest)))
         IN IF nd = 0 \/ UnitSecs(SubSeq(rest, 1, nu)) = 0 \/ more < 0
            THEN 0 - 1
            ELSE DecVal(SubSeq(s, 1, nd)) * UnitSecs(SubSeq(rest, 1, nu)) + more

\* d, _ := time.ParseDuration(s), in seconds
ParseDuration(s) ==
    LET u == Unsigned(s)
    IN IF u = <<"0">> \/ u = <<>> \/ DurSecs(u) < 0
       THEN 0
       ELSE IF Negative(s) THEN 0 - DurSecs(u) ELSE DurSecs(u)

\* strings.Split(s, sep) for a one-character separator
RECURSIVE Split(_, _)
Split(s, sep) ==
    IF Index(s, sep) = 0
    THEN <<s>>
    ELSE <<SubSeq(s, 1, Index(s, sep) - 1)>> \o Split(SubSeq(s, Index(s, sep) + 1, Len(s)), sep)

\* a loop that keeps the parts that are empty once trimmed
TrimmedPartsKeepsEmpty(parts) ==
    [i \in 1..Len(parts) |-> TrimSpace(parts[i])]

\* the loop of GetStringSlice over the parts
TrimmedParts(parts) ==
    SelectSeq([i \in 1..Len(parts) |-> TrimSpace(parts[i])], LAMBDA x : x # <<>>)

\* what the getter called name makes of the string s returned by GetString
Parsed(name, s) ==
    CASE name = "GetInt" -> IntVal(IF s = <<>> THEN 0 ELSE Atoi(s))
      [] name = "GetInt64" -> Int64Val(IF s = <<>> THEN 0 ELSE ParseInt(s))
      [] name = "GetFloat64" -> FloatVal(IF s = <<>> THEN 0 ELSE ParseFloat(s))
      [] name = "GetBool" -> BoolVal(IF s = <<>> THEN FALSE ELSE ParseBool(s))
      [] name = "GetDuration" -> DurVal(IF s = <<>> THEN 0 ELSE ParseDuration(s))
      [] name = "GetStringSlice" ->
            SliceVal(IF s = <<>> THEN <<>> ELSE TrimmedParts(Split(s, ",")))

\* a map of its own with the entries of m, as make and a copying loop give
NewMap(m) == [t |-> "map", own |-> TRUE, m |-> m]

\* the map c.data itself
TheData == [t |-> "map", own |-> FALSE, m |-> EmptyMap]

\* the result of GetStringMap(key) on the mapping d
StringMapOf(d, key) ==
    LET prefix == key \o <<".">>
        hits == {k \in DOMAIN d : HasPrefix(k, prefix)}
    IN [mk \in {SubSeq(k, Len(prefix) + 1, Len(k)) : k \in hits} |->
          d[CHOOSE k \in hits : SubSeq(k, Len(prefix) + 1, Len(k)) = mk]]

(***************************************************************************)
(* State                                                                   *)
(***************************************************************************)
VARIABLES
    world,      \* index in Worlds of the current files, environment and source behaviour
    data,       \* c.data, the authoritative mapping
    cache,      \* c.cache
    sources,    \* c.sources, as the sequence of the registered source ids
    writer,     \* c.mu: the goroutine holding the write lock, 0 when none
    readers,    \* c.mu: the goroutines holding a read lock
    pc,         \* position of each goroutine
    op,         \* the call each goroutine is executing
    ret,        \* the value its call returns
    val,        \* Get: the local val read from c.data
    slot,       \* Get: the key of the map slot its element pointer refers to
    idx,        \* Reload: position in the range over c.sources
    crashed,    \* the runtime stopped the process with a fatal error
    held,       \* the map returned by All() that the program kept, if any
    pendingSet, \* history: per key, the last Set not yet followed by a cache lookup of the key or a Reload
    chk,        \* history: for the first Get to look its key up after a Set of it, the record of that Set
    loadLog,    \* history: per goroutine, the source ids whose Load() its Reload has called, in call order
    dropped,    \* history: per goroutine, the mapping its Reload replaced by an empty map
    prevData,   \* history: the mapping left by the last Reload if nothing was changed since
    pristine,   \* history: nothing happened to the store or the world since New()
    oob,        \* history: per key written to c.data directly, the value cached then and whether the entry was cleared since
    calls       \* number of calls and world changes so far

vars == <<world, data, cache, sources, writer, readers, pc, op, ret, val, slot, idx,
          crashed, held, pendingSet, chk, loadLog, dropped, prevData, pristine, oob, calls>>

storeVars == <<data, cache, sources>>

lockVars == <<writer, readers>>

localVars == <<val, slot, idx>>

histVars == <<pendingSet, chk, loadLog, dropped, prevData, pristine, oob>>

W == Worlds[world]

\* the direct writes of the keys in ks have had their cache entries cleared
OobCleared(m, ks) ==
    [k \in DOMAIN m |-> IF k \in ks THEN [m[k] EXCEPT !.cleared = TRUE] ELSE m[k]]

ReloadPcs == {"rl_cache", "rl_data", "rl_files", "rl_env", "rl_source"}

InReload(p) == pc[p] \in ReloadPcs \/ (pc[p] = "unlock" /\ op[p].name = "Reload")

\* New(), called under any of the worlds
Init ==
    /\ world \in WorldIds
    /\ data = NewData(Worlds[world])
    /\ cache = EmptyMap
    /\ sources = <<>>
    /\ writer = 0
    /\ readers = {}
    /\ pc = [p \in Procs |-> "idle"]
    /\ op = [p \in Procs |-> NoOp]
    /\ ret = [p \in Procs |-> Nil]
    /\ val = [p \in Procs |-> Nil]
    /\ slot = [p \in Procs |-> <<>>]
    /\ idx = [p \in Procs |-> 0]
    /\ crashed = FALSE
    /\ held = <<>>
    /\ pendingSet = EmptyMap
    /\ chk = [p \in Procs |-> <<>>]
    /\ loadLog = [p \in Procs |-> <<>>]
    /\ dropped = [p \in Procs |-> <<>>]
    /\ prevData = <<>>
    /\ pristine = TRUE
    /\ oob = EmptyMap
    /\ calls = 0

(***************************************************************************)
(* Calls and the lock                                                      *)
(***************************************************************************)
\* Entering a method.  A goroutine that calls a method while the lock is
\* not available waits inside RLock()/Lock() without touching the store, so
\* its call is modelled from the moment it gets the lock.
Enter(p, o) ==
    /\ ~crashed
    /\ pc[p] = "idle"
    /\ calls < MaxCalls
    /\ o.name = "AddSource" => Len(sources) < MaxSources
    /\ calls' = calls + 1
    /\ op' = [op EXCEPT ![p] = o]
    /\ UNCHANGED <<world, held, storeVars, ret, localVars, crashed, histVars>>

\* a reading method is called: c.mu.RLock()
RLock(p, o) ==
    /\ o.name \in ReadOps
    /\ Enter(p, o)
    /\ writer = 0
    /\ readers' = readers \cup {p}
    /\ pc' = [pc EXCEPT ![p] = CASE o.name \in GetOps -> "get_cache"
                                 [] o.name = "Has" -> "has_read"
                                 [] o.name = "All" -> "all_read"
                                 [] o.name = "GetStringMap" -> "gsm_read"]
    /\ UNCHANGED writer

\* a write lock that does not wait for the readers to leave
LockIgnoresReaders(p, o) ==
    /\ o.name \notin ReadOps
    /\ Enter(p, o)
    /\ writer = 0
    /\ writer' = p
    /\ pc' = [pc EXCEPT ![p] = CASE o.name = "Set" -> "set_data"
                                 [] o.name = "Reload" -> "rl_cache"
                                 [] o.name = "AddSource" -> "add_append"]
    /\ UNCHANGED readers

\* a writing method is called: c.mu.Lock()
Lock(p, o) ==
    /\ o.name \notin ReadOps
    /\ Enter(p, o)
    /\ writer = 0
    /\ readers = {}
    /\ writer' = p
    /\ pc' = [pc EXCEPT ![p] = CASE o.name = "Set" -> "set_data"
                                 [] o.name = "Reload" -> "rl_cache"
                                 [] o.name = "AddSource" -> "add_append"]
    /\ UNCHANGED readers

\* the call of p is over: its frame is gone
Leave(p) ==
    /\ op' = [op EXCEPT ![p] = NoOp]
    /\ ret' = [ret EXCEPT ![p] = Nil]
    /\ val' = [val EXCEPT ![p] = Nil]
    /\ slot' = [slot EXCEPT ![p] = <<>>]
    /\ idx' = [idx EXCEPT ![p] = 0]
    /\ chk' = [chk EXCEPT ![p] = <<>>]
    /\ loadLog' = [loadLog EXCEPT ![p] = <<>>]
    /\ dropped' = [dropped EXCEPT ![p] = <<>>]

\* deferred c.mu.RUnlock().  The method returns ret[p] to its caller; when
\* the caller is GetString (val := c.Get(key)), the value goes on to be
\* formatted; when GetString was called by a typed getter, it formats the
\* value as GsFormat does and the getter parses the string, which touches
\* nothing shared and is taken as part of this step.
RUnlock(p) ==
    /\ ~crashed
    /\ pc[p] = "runlock"
    /\ readers' = readers \ {p}
    /\ CASE op[p].name = "GetString" ->
              /\ pc' = [pc EXCEPT ![p] = "gs_format"]
              /\ val' = [val EXCEPT ![p] = ret[p]]
              /\ UNCHANGED <<op, ret, slot, idx, chk, loadLog, dropped>>
         [] op[p].name \in TypedOps ->
              /\ pc' = [pc EXCEPT ![p] = "tg_return"]
              /\ val' = [val EXCEPT ![p] = ret[p]]
              /\ ret' = [ret EXCEPT ![p] = Parsed(op[p].name, Sprintv(ret[p]))]
              /\ UNCHANGED <<op, slot, idx, chk, loadLog, dropped>>
         [] OTHER ->
              /\ pc' = [pc EXCEPT ![p] = "idle"]
              /\ Leave(p)
    /\ UNCHANGED <<world, held, storeVars, writer, crashed, pendingSet, prevData, pristine, oob, calls>>

\* GetString: nil gives "", a string is returned as it is, any other value
\* is formatted with %v
GsFormat(p) ==
    /\ ~crashed
    /\ pc[p] = "gs_format"
    /\ ret' = [ret EXCEPT ![p] = StrVal(Sprintv(ret[p]))]
    /\ pc' = [pc EXCEPT ![p] = "gs_return"]
    /\ UNCHANGED <<world, held, storeVars, lockVars, op, localVars, crashed, histVars, calls>>

\* GetString returns ret[p]
GsReturn(p) ==
    /\ ~crashed
    /\ pc[p] = "gs_return"
    /\ pc' = [pc EXCEPT ![p] = "idle"]
    /\ Leave(p)
    /\ UNCHANGED <<world, held, storeVars, lockVars, crashed, pendingSet, prevData, pristine, oob, calls>>

\* the typed getter returns ret[p]
TgReturn(p) ==
    /\ ~crashed
    /\ pc[p] = "tg_return"
    /\ pc' = [pc EXCEPT ![p] = "idle"]
    /\ Leave(p)
    /\ UNCHANGED <<world, held, storeVars, lockVars, crashed, pendingSet, prevData, pristine, oob, calls>>

\* deferred c.mu.Unlock(); the method returns
Unlock(p) ==
    /\ ~crashed
    /\ pc[p] = "unlock"
    /\ writer' = 0
    /\ pc' = [pc EXCEPT ![p] = "idle"]
    /\ prevData' = IF op[p].name = "Reload" THEN <<data>> ELSE prevData
    /\ Leave(p)
    /\ UNCHANGED <<world, held, storeVars, readers, crashed, pendingSet, pristine, oob, calls>>

(***************************************************************************)
(* Get (and GetString on top of it).  Get holds only the read lock, so     *)
(* several goroutines can execute it at once.  The statement               *)
(* c.cache[key] = val is a map assignment: the runtime first finds or      *)
(* claims the slot of the key and hands back a pointer to its element      *)
(* (get_assign), then the value is stored through that pointer             *)
(* (get_store).  When two goroutines do this to the same map without       *)
(* synchronisation the behaviour is undefined; the outcomes modelled are:  *)
(* the runtime detects it and stops the process (MapFatal), both           *)
(* assignments land, or both goroutines claim the same free slot, so that  *)
(* the slot keeps the key written last and receives the value stored last  *)
(* and the other key is lost.                                              *)
(***************************************************************************)
\* a Get that consults the mapping before the cache
GetCacheReadsData(p) ==
    /\ ~crashed
    /\ pc[p] = "get_cache"
    /\ IF op[p].key \in DOMAIN cache
       THEN /\ ret' = [ret EXCEPT ![p] = IF op[p].key \in DOMAIN data
                                         THEN data[op[p].key]
                                         ELSE cache[op[p].key]]
            /\ pc' = [pc EXCEPT ![p] = "runlock"]
       ELSE /\ pc' = [pc EXCEPT ![p] = "get_data"]
            /\ UNCHANGED ret
    /\ IF op[p].key \in DOMAIN pendingSet
       THEN /\ chk' = [chk EXCEPT ![p] = <<pendingSet[op[p].key]>>]
            /\ pendingSet' = Delete(pendingSet, op[p].key)
       ELSE UNCHANGED <<chk, pendingSet>>
    /\ oob' = IF op[p].key \in DOMAIN oob /\ oob[op[p].key].cleared
              THEN Delete(oob, op[p].key)
              ELSE oob
    /\ UNCHANGED <<world, held, storeVars, lockVars, op, localVars, crashed, loadLog, prevData, pristine, dropped, calls>>

\* if val, ok := c.cache[key]; ok { return val }
GetCache(p) ==
    /\ ~crashed
    /\ pc[p] = "get_cache"
    /\ IF op[p].key \in DOMAIN cache
       THEN /\ ret' = [ret EXCEPT ![p] = cache[op[p].key]]
            /\ pc' = [pc EXCEPT ![p] = "runlock"]
       ELSE /\ pc' = [pc EXCEPT ![p] = "get_data"]
            /\ UNCHANGED ret
    /\ IF op[p].key \in DOMAIN pendingSet
       THEN /\ chk' = [chk EXCEPT ![p] = <<pendingSet[op[p].key]>>]
            /\ pendingSet' = Delete(pendingSet, op[p].key)
       ELSE UNCHANGED <<chk, pendingSet>>
    /\ oob' = IF op[p].key \in DOMAIN oob /\ oob[op[p].key].cleared
              THEN Delete(oob, op[p].key)
              ELSE oob
    /\ UNCHANGED <<world, held, storeVars, lockVars, op, localVars, crashed, loadLog, prevData, pristine, dropped, calls>>

\* a Get that remembers a miss in the cache
GetDataCachesMiss(p) ==
    /\ ~crashed
    /\ pc[p] = "get_data"
    /\ IF op[p].key \in DOMAIN data
       THEN /\ val' = [val EXCEPT ![p] = data[op[p].key]]
            /\ pc' = [pc EXCEPT ![p] = "get_assign"]
            /\ UNCHANGED <<ret, cache>>
       ELSE /\ ret' = [ret EXCEPT ![p] = Nil]
            /\ cache' = Put(cache, op[p].key, Nil)
            /\ pc' = [pc EXCEPT ![p] = "runlock"]
            /\ UNCHANGED val
    /\ UNCHANGED <<world, held, data, sources, lockVars, op, slot, idx, crashed, histVars, calls>>

\* if val, ok := c.data[key]; ok { ... } return nil
GetData(p) ==
    /\ ~crashed
    /\ pc[p] = "get_data"
    /\ IF op[p].key \in DOMAIN data
       THEN /\ val' = [val EXCEPT ![p] = data[op[p].key]]
            /\ pc' = [pc EXCEPT ![p] = "get_assign"]
            /\ UNCHANGED ret
       ELSE /\ ret' = [ret EXCEPT ![p] = Nil]
            /\ pc' = [pc EXCEPT ![p] = "runlock"]
            /\ UNCHANGED val
    /\ UNCHANGED <<world, held, storeVars, lockVars, op, slot, idx, crashed, histVars, calls>>

\* goroutines in the middle of an insertion of a new key into c.cache
Inserting(p) == {q \in Procs \ {p} : pc[q] = "get_store" /\ slot[q] \notin DOMAIN cache}

\* c.cache[key] = val, first half: the slot of key is found or claimed.
\* A slot is identified by the key it holds.  taken is empty, or holds the
\* key of a free slot that concurrent inserters have claimed and that p
\* claims as well: the slot then holds the key of p for all of them.
GetAssign(p) ==
    /\ ~crashed
    /\ pc[p] = "get_assign"
    /\ \E taken \in {{}} \cup {{slot[q]} : q \in Inserting(p)} :
          /\ taken # {} => (op[p].key \notin DOMAIN cache /\ op[p].key \notin taken)
          /\ slot' = [q \in Procs |->
                        IF q = p \/ (q \in Inserting(p) /\ slot[q] \in taken)
                        THEN op[p].key ELSE slot[q]]
    /\ pc' = [pc EXCEPT ![p] = "get_store"]
    /\ UNCHANGED <<world, held, storeVars, lockVars, op, ret, val, idx, crashed, histVars, calls>>

\* c.cache[key] = val, second half: the value is stored; return val
GetStore(p) ==
    /\ ~crashed
    /\ pc[p] = "get_store"
    /\ cache' = Put(cache, slot[p], val[p])
    /\ ret' = [ret EXCEPT ![p] = val[p]]
    /\ pc' = [pc EXCEPT ![p] = "runlock"]
    /\ UNCHANGED <<world, held, data, sources, lockVars, op, localVars, crashed, histVars, calls>>

\* "fatal error: concurrent map writes" / "concurrent map read and map
\* write": the runtime may notice an access to c.cache that overlaps a
\* write of another goroutine, and then kills the process.
MapFatal(p) ==
    /\ ~crashed
    /\ pc[p] \in {"get_cache", "get_assign", "get_store"}
    /\ \E q \in Procs \ {p} : pc[q] = "get_store"
    /\ crashed' = TRUE
    /\ UNCHANGED <<world, held, storeVars, lockVars, pc, op, ret, localVars, histVars, calls>>

(***************************************************************************)
(* Has, All, GetStringMap                                                  *)
(***************************************************************************)
\* a Has that looks the key up in the cache
HasReadsCache(p) ==
    /\ ~crashed
    /\ pc[p] = "has_read"
    /\ ret' = [ret EXCEPT ![p] = BoolVal(op[p].key \in DOMAIN cache)]
    /\ pc' = [pc EXCEPT ![p] = "runlock"]
    /\ UNCHANGED <<world, held, storeVars, lockVars, op, localVars, crashed, histVars, calls>>

\* _, exists := c.data[key]
HasRead(p) ==
    /\ ~crashed
    /\ pc[p] = "has_read"
    /\ ret' = [ret EXCEPT ![p] = BoolVal(op[p].key \in DOMAIN data)]
    /\ pc' = [pc EXCEPT ![p] = "runlock"]
    /\ UNCHANGED <<world, held, storeVars, lockVars, op, localVars, crashed, histVars, calls>>

\* an All that hands out c.data itself
AllReadReturnsData(p) ==
    /\ ~crashed
    /\ pc[p] = "all_read"
    /\ ret' = [ret EXCEPT ![p] = TheData]
    /\ pc' = [pc EXCEPT ![p] = "runlock"]
    /\ UNCHANGED <<world, held, storeVars, lockVars, op, localVars, crashed, histVars, calls>>

\* result := make(map[string]any); for k, v := range c.data { result[k] = v }
AllRead(p) ==
    /\ ~crashed
    /\ pc[p] = "all_read"
    /\ ret' = [ret EXCEPT ![p] = NewMap(data)]
    /\ pc' = [pc EXCEPT ![p] = "runlock"]
    /\ UNCHANGED <<world, held, storeVars, lockVars, op, localVars, crashed, histVars, calls>>

\* a GetStringMap that collects the entries of the cache
GsmReadsCache(p) ==
    /\ ~crashed
    /\ pc[p] = "gsm_read"
    /\ ret' = [ret EXCEPT ![p] = NewMap(StringMapOf(cache, op[p].key))]
    /\ pc' = [pc EXCEPT ![p] = "runlock"]
    /\ UNCHANGED <<world, held, storeVars, lockVars, op, localVars, crashed, histVars, calls>>

\* for k, v := range c.data { if strings.HasPrefix(k, prefix) { ... } }
GsmRead(p) ==
    /\ ~crashed
    /\ pc[p] = "gsm_read"
    /\ ret' = [ret EXCEPT ![p] = NewMap(StringMapOf(data, op[p].key))]
    /\ pc' = [pc EXCEPT ![p] = "runlock"]
    /\ UNCHANGED <<world, held, storeVars, lockVars, op, localVars, crashed, histVars, calls>>

(***************************************************************************)
(* Set, AddSource                                                          *)
(***************************************************************************)
\* c.data[key] = value
SetData(p) ==
    /\ ~crashed
    /\ pc[p] = "set_data"
    /\ data' = Put(data, op[p].key, op[p].val)
    /\ pc' = [pc EXCEPT ![p] = "set_cache"]
    /\ prevData' = <<>>
    /\ pristine' = FALSE
    /\ UNCHANGED <<world, held, cache, sources, lockVars, op, ret, localVars, crashed, pendingSet, chk, loadLog, oob, dropped, calls>>

\* history: what the Set of p stored, and whether the cache then held
\* another value for its key
SetRecord(p) ==
    [v |-> op[p].val,
     stale |-> op[p].key \in DOMAIN cache /\ cache[op[p].key] # op[p].val]

\* a Set that forgets to invalidate the cache entry
SetCacheKeepsEntry(p) ==
    /\ ~crashed
    /\ pc[p] = "set_cache"
    /\ cache' = cache
    /\ pc' = [pc EXCEPT ![p] = "unlock"]
    /\ pendingSet' = Put(pendingSet, op[p].key, SetRecord(p))
    /\ oob' = OobCleared(oob, {op[p].key})
    /\ UNCHANGED <<world, held, data, sources, lockVars, op, ret, localVars, crashed, chk, loadLog, prevData, pristine, dropped, calls>>

\* a Set that writes the new value through to the cache
SetCacheWritesThrough(p) ==
    /\ ~crashed
    /\ pc[p] = "set_cache"
    /\ cache' = Put(cache, op[p].key, op[p].val)
    /\ pc' = [pc EXCEPT ![p] = "unlock"]
    /\ pendingSet' = Put(pendingSet, op[p].key, SetRecord(p))
    /\ oob' = OobCleared(oob, {op[p].key})
    /\ UNCHANGED <<world, held, data, sources, lockVars, op, ret, localVars, crashed, chk, loadLog, prevData, pristine, dropped, calls>>

\* delete(c.cache, key)
SetCache(p) ==
    /\ ~crashed
    /\ pc[p] = "set_cache"
    /\ cache' = Delete(cache, op[p].key)
    /\ pc' = [pc EXCEPT ![p] = "unlock"]
    /\ pendingSet' = Put(pendingSet, op[p].key, SetRecord(p))
    /\ oob' = OobCleared(oob, {op[p].key})
    /\ UNCHANGED <<world, held, data, sources, lockVars, op, ret, localVars, crashed, chk, loadLog, prevData, pristine, dropped, calls>>

\* an AddSource that loads the new source at once
AddAppendLoads(p) ==
    /\ ~crashed
    /\ pc[p] = "add_append"
    /\ sources' = Append(sources, op[p].src)
    /\ loadLog' = [loadLog EXCEPT ![p] = Append(loadLog[p], op[p].src)]
    /\ data' = IF W.src[op[p].src].err = NoError
               THEN MergeInto(data, W.src[op[p].src].data)
               ELSE data
    /\ pc' = [pc EXCEPT ![p] = "unlock"]
    /\ prevData' = <<>>
    /\ pristine' = FALSE
    /\ UNCHANGED <<world, held, cache, lockVars, op, ret, localVars, crashed, pendingSet, chk, oob, dropped, calls>>

\* c.sources = append(c.sources, source)
AddAppend(p) ==
    /\ ~crashed
    /\ pc[p] = "add_append"
    /\ sources' = Append(sources, op[p].src)
    /\ pc' = [pc EXCEPT ![p] = "unlock"]
    /\ prevData' = <<>>
    /\ pristine' = FALSE
    /\ UNCHANGED <<world, held, data, cache, lockVars, op, ret, localVars, crashed, pendingSet, chk, loadLog, oob, dropped, calls>>

(***************************************************************************)
(* Reload                                                                  *)
(***************************************************************************)
\* c.cache = make(map[string]any)
RlCache(p) ==
    /\ ~crashed
    /\ pc[p] = "rl_cache"
    /\ cache' = EmptyMap
    /\ pc' = [pc EXCEPT ![p] = "rl_data"]
    /\ pendingSet' = EmptyMap
    /\ pristine' = FALSE
    /\ oob' = OobCleared(oob, DOMAIN oob)
    /\ UNCHANGED <<world, held, data, sources, lockVars, op, ret, localVars, crashed, chk, loadLog, prevData, dropped, calls>>

\* a Reload that loads over the mapping it finds
RlDataKeepsEntries(p) ==
    /\ ~crashed
    /\ pc[p] = "rl_data"
    /\ data' = data
    /\ dropped' = [dropped EXCEPT ![p] = <<data>>]
    /\ pc' = [pc EXCEPT ![p] = "rl_files"]
    /\ UNCHANGED <<world, held, cache, sources, lockVars, op, ret, localVars, crashed, pendingSet, chk, loadLog, prevData, pristine, oob, calls>>

\* c.data = make(map[string]any)
RlData(p) ==
    /\ ~crashed
    /\ pc[p] = "rl_data"
    /\ data' = EmptyMap
    /\ dropped' = [dropped EXCEPT ![p] = <<data>>]
    /\ pc' = [pc EXCEPT ![p] = "rl_files"]
    /\ UNCHANGED <<world, held, cache, sources, lockVars, op, ret, localVars, crashed, pendingSet, chk, loadLog, prevData, pristine, oob, calls>>

\* c.loadEnvFiles()
RlFiles(p) ==
    /\ ~crashed
    /\ pc[p] = "rl_files"
    /\ data' = loadEnvFiles(data, W)
    /\ pc' = [pc EXCEPT ![p] = "rl_env"]
    /\ UNCHANGED <<world, held, cache, sources, lockVars, op, ret, localVars, crashed, histVars, calls>>

\* a Reload that leaves the process environment out
RlEnvSkipped(p) ==
    /\ ~crashed
    /\ pc[p] = "rl_env"
    /\ data' = data
    /\ idx' = [idx EXCEPT ![p] = 1]
    /\ pc' = [pc EXCEPT ![p] = "rl_source"]
    /\ UNCHANGED <<world, held, cache, sources, lockVars, op, ret, val, slot, crashed, histVars, calls>>

\* c.loadSystemEnv()
RlEnv(p) ==
    /\ ~crashed
    /\ pc[p] = "rl_env"
    /\ data' = loadSystemEnv(data, W)
    /\ idx' = [idx EXCEPT ![p] = 1]
    /\ pc' = [pc EXCEPT ![p] = "rl_source"]
    /\ UNCHANGED <<world, held, cache, sources, lockVars, op, ret, val, slot, crashed, histVars, calls>>

\* a Reload that empties the mapping when a source fails
RlSourceDiscardsOnError(p) ==
    /\ ~crashed
    /\ pc[p] = "rl_source"
    /\ IF idx[p] > Len(sources)
       THEN /\ ret' = [ret EXCEPT ![p] = NoError]
            /\ pc' = [pc EXCEPT ![p] = "unlock"]
            /\ UNCHANGED <<data, idx, loadLog>>
       ELSE LET r == W.src[sources[idx[p]]]
            IN /\ loadLog' = [loadLog EXCEPT ![p] = Append(loadLog[p], sources[idx[p]])]
               /\ IF r.err # NoError
                  THEN /\ ret' = [ret EXCEPT ![p] = r.err]
                       /\ pc' = [pc EXCEPT ![p] = "unlock"]
                       /\ data' = EmptyMap
                       /\ UNCHANGED idx
                  ELSE /\ data' = MergeInto(data, r.data)
                       /\ idx' = [idx EXCEPT ![p] = idx[p] + 1]
                       /\ UNCHANGED <<ret, pc>>
    /\ UNCHANGED <<world, held, cache, sources, lockVars, op, val, slot, crashed, pendingSet, chk, prevData, pristine, oob, dropped, calls>>

\* a Reload that skips a failing source and reports nothing
RlSourceSwallowsError(p) ==
    /\ ~crashed
    /\ pc[p] = "rl_source"
    /\ IF idx[p] > Len(sources)
       THEN /\ ret' = [ret EXCEPT ![p] = NoError]
            /\ pc' = [pc EXCEPT ![p] = "unlock"]
            /\ UNCHANGED <<data, idx, loadLog>>
       ELSE LET r == W.src[sources[idx[p]]]
            IN /\ loadLog' = [loadLog EXCEPT ![p] = Append(loadLog[p], sources[idx[p]])]
               /\ IF r.err # NoError
                  THEN /\ idx' = [idx EXCEPT ![p] = idx[p] + 1]
                       /\ UNCHANGED <<data, ret, pc>>
                  ELSE /\ data' = MergeInto(data, r.data)
                       /\ idx' = [idx EXCEPT ![p] = idx[p] + 1]
                       /\ UNCHANGED <<ret, pc>>
    /\ UNCHANGED <<world, held, cache, sources, lockVars, op, val, slot, crashed, pendingSet, chk, prevData, pristine, oob, dropped, calls>>

\* a Reload that takes each source off the list once it is merged
RlSourceDrains(p) ==
    /\ ~crashed
    /\ pc[p] = "rl_source"
    /\ IF idx[p] > Len(sources)
       THEN /\ ret' = [ret EXCEPT ![p] = NoError]
            /\ pc' = [pc EXCEPT ![p] = "unlock"]
            /\ UNCHANGED <<data, idx, loadLog, sources>>
       ELSE LET r == W.src[sources[idx[p]]]
            IN /\ loadLog' = [loadLog EXCEPT ![p] = Append(loadLog[p], sources[idx[p]])]
               /\ IF r.err # NoError
                  THEN /\ ret' = [ret EXCEPT ![p] = r.err]
                       /\ pc' = [pc EXCEPT ![p] = "unlock"]
                       /\ UNCHANGED <<data, idx, sources>>
                  ELSE /\ data' = MergeInto(data, r.data)
                       /\ sources' = [i \in 1..(Len(sources) - 1) |-> IF i < idx[p] THEN sources[i] ELSE sources[i + 1]]
                       /\ UNCHANGED <<ret, pc, idx>>
    /\ UNCHANGED <<world, held, cache, lockVars, op, val, slot, crashed, pendingSet, chk, prevData, pristine, oob, dropped, calls>>

\* one iteration of: for _, source := range c.sources { data, err :=
\* source.Load(); if err != nil { return err }; merge }, or return nil
RlSource(p) ==
    /\ ~crashed
    /\ pc[p] = "rl_source"
    /\ IF idx[p] > Len(sources)
       THEN /\ ret' = [ret EXCEPT ![p] = NoError]
            /\ pc' = [pc EXCEPT ![p] = "unlock"]
            /\ UNCHANGED <<data, idx, loadLog>>
       ELSE LET r == W.src[sources[idx[p]]]
            IN /\ loadLog' = [loadLog EXCEPT ![p] = Append(loadLog[p], sources[idx[p]])]
               /\ IF r.err # NoError
                  THEN /\ ret' = [ret EXCEPT ![p] = r.err]
                       /\ pc' = [pc EXCEPT ![p] = "unlock"]
                       /\ UNCHANGED <<data, idx>>
                  ELSE /\ data' = MergeInto(data, r.data)
                       /\ idx' = [idx EXCEPT ![p] = idx[p] + 1]
                       /\ UNCHANGED <<ret, pc>>
    /\ UNCHANGED <<world, held, cache, sources, lockVars, op, val, slot, crashed, pendingSet, chk, prevData, pristine, oob, dropped, calls>>

(***************************************************************************)
(* The environment                                                         *)
(***************************************************************************)
\* files, process environment and source behaviour change between calls (the
\* world is only read inside Reload, so a change during another call is
\* indistinguishable from one just before or after it)
ChangeWorld(w) ==
    /\ ~crashed
    /\ w # world
    /\ calls < MaxCalls
    /\ \A p \in Procs : pc[p] = "idle"
    /\ world' = w
    /\ calls' = calls + 1
    /\ prevData' = <<>>
    /\ pristine' = FALSE
    /\ UNCHANGED <<storeVars, lockVars, pc, op, ret, localVars, crashed, pendingSet, chk, loadLog, dropped, oob, held>>

Next ==
    \/ \E p \in Procs : \E o \in OpSet : RLock(p, o)
    \/ \E p \in Procs : \E o \in OpSet : Lock(p, o)
    \/ \E p \in Procs : RUnlock(p)
    \/ \E p \in Procs : GsFormat(p)
    \/ \E p \in Procs : GsReturn(p)
    \/ \E p \in Procs : Unlock(p)
    \/ \E p \in Procs : GetCache(p)
    \/ \E p \in Procs : GetData(p)
    \/ \E p \in Procs : GetAssign(p)
    \/ \E p \in Procs : GetStore(p)
    \/ \E p \in Procs : MapFatal(p)
    \/ \E p \in Procs : HasRead(p)
    \/ \E p \in Procs : AllRead(p)
    \/ \E p \in Procs : GsmRead(p)
    \/ \E p \in Procs : SetData(p)
    \/ \E p \in Procs : SetCache(p)
    \/ \E p \in Procs : AddAppend(p)
    \/ \E p \in Procs : RlCache(p)
    \/ \E p \in Procs : RlData(p)
    \/ \E p \in Procs : RlFiles(p)
    \/ \E p \in Procs : RlEnv(p)
    \/ \E p \in Procs : RlSource(p)
    \/ \E w \in WorldIds : ChangeWorld(w)

Spec == Init /\ [][Next]_vars

(***************************************************************************)
(* Points of a call and the accesses made there                            *)
(***************************************************************************)
\* Reload has done all its work and is about to unlock and return ret[p]
AtReloadEnd(p) == pc[p] = "unlock" /\ op[p].name = "Reload"

\* positions inside the critical section of a reading method
ReadPcs == {"get_cache", "get_data", "get_assign", "get_store", "has_read", "all_read", "gsm_read", "runlock"}

\* positions at which the next statement reads, or is writing, a structure
CacheReadPcs == {"get_cache"}

CacheWritePcs == {"get_assign", "get_store", "set_cache", "rl_cache"}

DataReadPcs == {"get_data", "has_read", "all_read", "gsm_read"}

DataWritePcs == {"set_data", "rl_data", "rl_files", "rl_env", "rl_source"}

SourcesReadPcs == {"rl_source"}

SourcesWritePcs == {"add_append"}

\* two goroutines are at conflicting accesses of one structure
Conflict(p, q, writePcs, readPcs) ==
    pc[p] \in writePcs /\ pc[q] \in (writePcs \cup readPcs)

(***************************************************************************)
(* What the layers and the sources of a world define                       *)
(***************************************************************************)
\* each layer parsed on its own, lowest precedence first:
\* .env, .local.env, .<APP_ENV>.env, process environment
LayerMaps(w) ==
    << loadEnvFile(EmptyMap, w, fEnv),
       loadEnvFile(EmptyMap, w, fLocalEnv),
       loadEnvFile(EmptyMap, w, envFileName(w)),
       loadSystemEnv(EmptyMap, w) >>

\* the mapping in which every key has the value of the highest layer defining it
ByPrecedence(w) ==
    LET L == LayerMaps(w)
        top(k) == CHOOSE i \in 1..4 : k \in DOMAIN L[i] /\ \A j \in (i + 1)..4 : k \notin DOMAIN L[j]
    IN [k \in UNION {DOMAIN L[i] : i \in 1..4} |-> L[top(k)][k]]

\* ByPrecedence of each world, computed once
PrecedenceOf == [i \in WorldIds |-> ByPrecedence(Worlds[i])]

\* the layers overridden by the first n registered sources, the later
\* registration winning
WithSources(w, srcs, n) ==
    LET returns(k) == {i \in 1..n : k \in DOMAIN w.src[srcs[i]].data}
        last(k) == CHOOSE i \in returns(k) : \A j \in returns(k) : j <= i
        layers == ByPrecedence(w)
    IN [k \in (DOMAIN layers) \cup UNION {DOMAIN w.src[srcs[i]].data : i \in 1..n} |->
          IF returns(k) # {} THEN w.src[srcs[last(k)]].data[k] ELSE layers[k]]

\* the registered sources whose Load() fails in world w
Failing(w, srcs) == {i \in 1..Len(srcs) : w.src[srcs[i]].err # NoError}

(***************************************************************************)
(* Properties                                                              *)
(***************************************************************************)

\* C1: the first Get(k) (or GetString(k)) to look k up after a completed
\* Set(k, v), with no Set(k, _) or Reload in between, returns exactly v
\* (GetString: its string form), whatever the cache held for k before.
C1_SetThenGet ==
    \A p \in Procs :
        chk[p] # <<>> =>
            /\ pc[p] = "runlock" => ret[p] = chk[p][1].v
            /\ pc[p] = "gs_return" => ret[p] = StrVal(Sprintv(chk[p][1].v))

\* a Get returns the value of a Set that found another value in the cache
C1_Witness ==
    \E p \in Procs :
        /\ pc[p] = "runlock" /\ op[p].name = "Get" /\ chk[p] # <<>>
        /\ chk[p][1].stale /\ chk[p][1].v = IntVal(7) /\ ret[p] = IntVal(7)

\* C2 (as claimed): whenever no writer is inside its critical section,
\* every key of the cache is a key of the mapping with an equal value.
C2_CacheAgreesWithData ==
    writer = 0 => \A k \in DOMAIN cache : k \in DOMAIN data /\ cache[k] = data[k]

\* C3 (as claimed): no write of the mapping, the cache or the source list
\* is concurrent with another access of the same structure.
C3_NoConcurrentAccess ==
    \A p, q \in Procs :
        p # q =>
            /\ ~Conflict(p, q, CacheWritePcs, CacheReadPcs)
            /\ ~Conflict(p, q, DataWritePcs, DataReadPcs)
            /\ ~Conflict(p, q, SourcesWritePcs, SourcesReadPcs)

C6_FailingSource ==
    \A p \in Procs :
        (AtReloadEnd(p) /\ ret[p] # NoError) =>
            LET i == Len(loadLog[p])
            IN /\ i \in Failing(W, sources)
               /\ \A j \in Failing(W, sources) : i <= j
               /\ ret[p] = W.src[sources[i]].err
               /\ loadLog[p] = SubSeq(sources, 1, i)
               /\ data = WithSources(W, sources, i - 1)
               /\ cache = EmptyMap

\* the second of two sources failed after the first was merged
C6_Witness ==
    \E p \in Procs :
        /\ AtReloadEnd(p) /\ ret[p] = ErrVal("e2") /\ world = 2
        /\ sources = <<"s1", "s2">>
        /\ data[kA] = IntVal(7)

\* C7: Reload returns an error exactly when the Load() of some registered
\* source fails; file layers never make it fail.
C7_ErrorIffSourceFails ==
    \A p \in Procs :
        AtReloadEnd(p) => (ret[p] # NoError <=> Failing(W, sources) # {})

\* a Reload succeeded with an unreadable .env, a missing .local.env and
\* malformed lines
C7_Witness ==
    \E p \in Procs :
        /\ AtReloadEnd(p) /\ ret[p] = NoError /\ world = 2
        /\ W.fs[fEnv] = Unreadable /\ fLocalEnv \notin DOMAIN W.fs
        /\ sources = <<"s1">>

\* C8: from the clearing of the cache until Reload returns, Reload holds
\* the write lock and no other goroutine is inside a reading method.
C8_ReloadExcludesReaders ==
    \A p \in Procs :
        InReload(p) =>
            /\ writer = p
            /\ \A q \in Procs \ {p} : pc[q] \notin ReadPcs

\* Reload is about to call a source while a GetString on another goroutine,
\* which read the mapping before the Reload, is still formatting its value
C8_Witness ==
    \E p, q \in Procs :
        /\ pc[p] = "rl_source" /\ idx[p] <= Len(sources)
        /\ pc[q] = "gs_format"

\* C9: a Reload that follows a Reload, with nothing changed in between,
\* leaves the mapping the first one left.
C9_ReloadIdempotent ==
    \A p \in Procs :
        (AtReloadEnd(p) /\ prevData # <<>>) => data = prevData[1]

\* a second Reload in a row ended, with a source registered
C9_Witness ==
    \E p \in Procs :
        /\ AtReloadEnd(p) /\ prevData # <<>> /\ sources # <<>>
        /\ ret[p] = NoError

\* C10: a key enters the cache only in the store step of a Get, and only
\* when a Get of that key found it in the mapping.
C10_CacheOnlyByGet ==
    [][\A k \in (DOMAIN cache') \ (DOMAIN cache) :
          /\ k \in DOMAIN data
          /\ \E p \in Procs : pc[p] = "get_store" /\ pc'[p] = "runlock" /\ op[p].name \in GetOps
          /\ \E q \in Procs : pc[q] = "get_store" /\ op[q].name \in GetOps /\ op[q].key = k]_vars

\* a Get misses on a key that neither the mapping nor the cache holds,
\* while the cache holds an entry made by an earlier Get
C10_Witness ==
    \E p \in Procs :
        /\ pc[p] = "runlock" /\ op[p].name = "Get" /\ ret[p] = Nil
        /\ op[p].key \notin DOMAIN data /\ op[p].key \notin DOMAIN cache
        /\ cache # EmptyMap

(***************************************************************************)
(* Writing the mapping directly                                            *)
(***************************************************************************)
OobKeys == {kA}

OobVals == {StrVal(<<"o">>)}

\* c.data["test_key"] = "modified_value": code of the package writes the
\* field itself, between calls, and leaves the cache as it is
OutOfBand(k, v) ==
    /\ ~crashed
    /\ \A p \in Procs : pc[p] = "idle"
    /\ data' = Put(data, k, v)
    /\ pendingSet' = Delete(pendingSet, k)
    /\ oob' = IF k \in DOMAIN cache /\ k \notin DOMAIN oob
              THEN Put(oob, k, [old |-> cache[k], cleared |-> FALSE])
              ELSE oob
    /\ prevData' = <<>>
    /\ pristine' = FALSE
    /\ UNCHANGED <<world, held, cache, sources, lockVars, pc, op, ret, localVars, crashed, chk, loadLog, dropped, calls>>

OobOpSet ==
    {Op("Get", k, Nil, "") : k \in GetKeys}
    \cup {Op("Set", kA, StrVal(<<"x">>), ""), Op("Reload", <<>>, Nil, "")}

NextOob ==
    \/ \E p \in Procs : \E o \in OobOpSet : RLock(p, o)
    \/ \E p \in Procs : \E o \in OobOpSet : Lock(p, o)
    \/ \E p \in Procs : RUnlock(p)
    \/ \E p \in Procs : Unlock(p)
    \/ \E p \in Procs : GetCache(p)
    \/ \E p \in Procs : GetData(p)
    \/ \E p \in Procs : GetAssign(p)
    \/ \E p \in Procs : GetStore(p)
    \/ \E p \in Procs : MapFatal(p)
    \/ \E p \in Procs : SetData(p)
    \/ \E p \in Procs : SetCache(p)
    \/ \E p \in Procs : RlCache(p)
    \/ \E p \in Procs : RlData(p)
    \/ \E p \in Procs : RlFiles(p)
    \/ \E p \in Procs : RlEnv(p)
    \/ \E p \in Procs : RlSource(p)
    \/ \E k \in OobKeys : \E v \in OobVals : OutOfBand(k, v)

SpecOob == Init /\ [][NextOob]_vars

\* the Get of p found its key in the cache
CacheHit(p) ==
    /\ pc[p] = "runlock"
    /\ op[p].name = "Get"
    /\ val[p] = Nil
    /\ ret[p] # Nil

\* the Get of p found its key in the mapping only
CacheMiss(p) ==
    /\ pc[p] = "runlock"
    /\ op[p].name = "Get"
    /\ val[p] # Nil

\* C11: a Get that finds its key in the cache returns the cached value and
\* not the mapping's: after the mapping entry of a cached key was written
\* directly, every Get of the key returns the value cached before that write
\* for as long as no Set of the key and no Reload has cleared the entry; the
\* first Get to look the key up after the entry was cleared finds no cache
\* entry, and a Get that finds none returns the value the mapping holds
C11_ReadThrough ==
    \A p \in Procs :
        /\ (CacheHit(p) /\ op[p].key \in DOMAIN oob /\ ~oob[op[p].key].cleared)
              => ret[p] = oob[op[p].key].old
        /\ (pc[p] = "get_cache" /\ op[p].key \in DOMAIN oob /\ oob[op[p].key].cleared)
              => op[p].key \notin DOMAIN cache
        /\ CacheMiss(p)
              => (op[p].key \in DOMAIN data /\ ret[p] = data[op[p].key])

\* a Get returns the value cached before a direct write that changed the
\* mapping entry to another value
C11_Witness ==
    \E p \in Procs :
        /\ CacheHit(p)
        /\ op[p].key \in DOMAIN oob
        /\ ~oob[op[p].key].cleared
        /\ ret[p] = oob[op[p].key].old
        /\ data[op[p].key] \in OobVals
        /\ ret[p] # data[op[p].key]

(***************************************************************************)
(* The typed getters                                                       *)
(***************************************************************************)
TypedOpSet == {Op(g, kB, Nil, "") : g \in {"Get", "Has"} \cup StringOps}

NextTyped ==
    \/ \E p \in Procs : \E o \in TypedOpSet : RLock(p, o)
    \/ \E p \in Procs : RUnlock(p)
    \/ \E p \in Procs : GsFormat(p)
    \/ \E p \in Procs : GsReturn(p)
    \/ \E p \in Procs : TgReturn(p)
    \/ \E p \in Procs : GetCache(p)
    \/ \E p \in Procs : GetData(p)
    \/ \E p \in Procs : GetAssign(p)
    \/ \E p \in Procs : GetStore(p)
    \/ \E p \in Procs : MapFatal(p)
    \/ \E p \in Procs : HasRead(p)

SpecTyped == Init /\ [][NextTyped]_vars

\* the result of the getter called name for a key that is not there
ZeroOf(name) ==
    CASE name = "GetString" -> StrVal(<<>>)
      [] name = "GetInt" -> IntVal(0)
      [] name = "GetInt64" -> Int64Val(0)
      [] name = "GetFloat64" -> FloatVal(0)
      [] name = "GetBool" -> BoolVal(FALSE)
      [] name = "GetDuration" -> DurVal(0)
      [] name = "GetStringSlice" -> SliceVal(<<>>)

\* the positions of a getter at which it has no element of c.cache to write
LookupPcs == {"get_cache", "get_data", "has_read", "runlock", "gs_format", "gs_return", "tg_return"}

\* the key of p's call is in neither map
Absent(p) == op[p].key \notin DOMAIN data /\ op[p].key \notin DOMAIN cache

\* C12: for a key that is in neither the mapping nor the cache, Get returns
\* nil and Has false, and the getters built on Get return the zero value of
\* their type (GetString "", GetInt, GetInt64 and GetFloat64 0, GetBool
\* false, GetDuration 0, GetStringSlice the empty sequence); such a call never
\* gets to write the cache, and no step of a getter outside that write
\* changes the mapping or the cache
C12_AbsentDefaults ==
    /\ [](\A p \in Procs :
            /\ (pc[p] = "runlock" /\ op[p].name \in GetOps /\ Absent(p)) => ret[p] = Nil
            /\ (pc[p] = "runlock" /\ op[p].name = "Has" /\ Absent(p)) => ret[p] = BoolVal(FALSE)
            /\ (pc[p] \in {"gs_return", "tg_return"} /\ val[p] = Nil)
                  => ret[p] = ZeroOf(op[p].name)
            /\ (pc[p] \in {"get_assign", "get_store"}) => op[p].key \in DOMAIN data)
    /\ [][\A p \in Procs :
            (pc[p] \in LookupPcs /\ pc'[p] # pc[p]) => (data' = data /\ cache' = cache)]_vars

\* a typed getter returns the zero value for a key that was in neither map
\* and is in neither map afterwards
C12_Witness ==
    \E p \in Procs :
        /\ pc[p] = "tg_return"
        /\ op[p].name = "GetDuration"
        /\ val[p] = Nil
        /\ Absent(p)
        /\ ret[p] = DurVal(0)

(***************************************************************************)
(* Has                                                                     *)
(***************************************************************************)
HasVals == {Nil, StrVal(<<"x">>), IntVal(7)}

HasOpSet ==
    {Op("Has", kB, Nil, ""), Op("Get", kB, Nil, ""), Op("Reload", <<>>, Nil, "")}
    \cup {Op("Set", kB, v, "") : v \in HasVals}

NextHas ==
    \/ \E p \in Procs : \E o \in HasOpSet : RLock(p, o)
    \/ \E p \in Procs : \E o \in HasOpSet : Lock(p, o)
    \/ \E p \in Procs : RUnlock(p)
    \/ \E p \in Procs : Unlock(p)
    \/ \E p \in Procs : GetCache(p)
    \/ \E p \in Procs : GetData(p)
    \/ \E p \in Procs : GetAssign(p)
    \/ \E p \in Procs : GetStore(p)
    \/ \E p \in Procs : MapFatal(p)
    \/ \E p \in Procs : HasRead(p)
    \/ \E p \in Procs : SetData(p)
    \/ \E p \in Procs : SetCache(p)
    \/ \E p \in Procs : RlCache(p)
    \/ \E p \in Procs : RlData(p)
    \/ \E p \in Procs : RlFiles(p)
    \/ \E p \in Procs : RlEnv(p)
    \/ \E p \in Procs : RlSource(p)

SpecHas == Init /\ [][NextHas]_vars

\* C13: Has(k) returns true exactly when k is a key of the mapping, whatever
\* the cache holds: false for a key no layer defines as long as nothing was
\* written, true after a Set of the key with any value, nil included
C13_HasIffInMapping ==
    \A p \in Procs :
        (pc[p] = "runlock" /\ op[p].name = "Has") =>
            /\ ret[p] = BoolVal(op[p].key \in DOMAIN data)
            /\ op[p].key \in DOMAIN pendingSet => ret[p] = BoolVal(TRUE)
            /\ (pristine /\ op[p].key \notin DOMAIN NewData(W)) => ret[p] = BoolVal(FALSE)

\* Has returns true after Set(k, nil) while the cache has no entry for k
C13_Witness ==
    \E p \in Procs :
        /\ pc[p] = "runlock"
        /\ op[p].name = "Has"
        /\ op[p].key \in DOMAIN pendingSet
        /\ pendingSet[op[p].key].v = Nil
        /\ op[p].key \notin DOMAIN cache
        /\ ret[p] = BoolVal(TRUE)

(***************************************************************************)
(* All: the program keeps the map it was given and changes it              *)
(***************************************************************************)
\* the entries the holder of the map h sees in it
View(h) == IF h.own THEN h.m ELSE data

CallerKeys == {kA, kC}

CallerVals == {StrVal(<<"c">>)}

AllOpSet ==
    {Op("All", <<>>, Nil, ""), Op("Get", kA, Nil, ""), Op("Set", kA, StrVal(<<"x">>), ""),
     Op("Reload", <<>>, Nil, "")}

\* All returns and the program keeps the map: all := c.All()
KeepAll(p) ==
    /\ ~crashed
    /\ pc[p] = "runlock"
    /\ op[p].name = "All"
    /\ held = <<>>
    /\ readers' = readers \ {p}
    /\ held' = <<[map |-> ret[p], snap |-> data, touched |-> FALSE]>>
    /\ pc' = [pc EXCEPT ![p] = "idle"]
    /\ Leave(p)
    /\ UNCHANGED <<world, storeVars, writer, crashed, pendingSet, prevData, pristine, oob, calls>>

\* the program writes the map it holds: all[k] = v
CallerPut(k, v) ==
    /\ ~crashed
    /\ held # <<>>
    /\ IF held[1].map.own
       THEN /\ held' = <<[held[1] EXCEPT !.map.m = Put(@, k, v), !.touched = TRUE]>>
            /\ UNCHANGED data
       ELSE /\ held' = <<[held[1] EXCEPT !.touched = TRUE]>>
            /\ data' = Put(data, k, v)
    /\ UNCHANGED <<world, cache, sources, lockVars, pc, op, ret, localVars, crashed, histVars, calls>>

\* the program deletes from the map it holds: delete(all, k)
CallerDelete(k) ==
    /\ ~crashed
    /\ held # <<>>
    /\ IF held[1].map.own
       THEN /\ held' = <<[held[1] EXCEPT !.map.m = Delete(@, k), !.touched = TRUE]>>
            /\ UNCHANGED data
       ELSE /\ held' = <<[held[1] EXCEPT !.touched = TRUE]>>
            /\ data' = Delete(data, k)
    /\ UNCHANGED <<world, cache, sources, lockVars, pc, op, ret, localVars, crashed, histVars, calls>>

NextAll ==
    \/ \E p \in Procs : \E o \in AllOpSet : RLock(p, o)
    \/ \E p \in Procs : \E o \in AllOpSet : Lock(p, o)
    \/ \E p \in Procs : RUnlock(p)
    \/ \E p \in Procs : KeepAll(p)
    \/ \E k \in CallerKeys : \E v \in CallerVals : CallerPut(k, v)
    \/ \E k \in CallerKeys : CallerDelete(k)
    \/ \E p \in Procs : Unlock(p)
    \/ \E p \in Procs : GetCache(p)
    \/ \E p \in Procs : GetData(p)
    \/ \E p \in Procs : GetAssign(p)
    \/ \E p \in Procs : GetStore(p)
    \/ \E p \in Procs : MapFatal(p)
    \/ \E p \in Procs : AllRead(p)
    \/ \E p \in Procs : SetData(p)
    \/ \E p \in Procs : SetCache(p)
    \/ \E p \in Procs : RlCache(p)
    \/ \E p \in Procs : RlData(p)
    \/ \E p \in Procs : RlFiles(p)
    \/ \E p \in Procs : RlEnv(p)
    \/ \E p \in Procs : RlSource(p)

SpecAll == Init /\ [][NextAll]_vars

\* C14: the map All returns has exactly the entries of the mapping at the
\* time of the call and is a map of its own: as long as the program does not
\* change it, it keeps those entries through later Set and Reload calls, and
\* a change the program makes to it changes neither the mapping nor the cache
C14_AllIsCopy ==
    /\ [](\A p \in Procs :
            (pc[p] = "runlock" /\ op[p].name = "All") => View(ret[p]) = data)
    /\ []((held # <<>> /\ ~held[1].touched) => View(held[1].map) = held[1].snap)
    /\ [][(held # <<>> /\ held' # held) => (data' = data /\ cache' = cache)]_vars

\* the program still sees the entries of the time of the call in its map
\* after a Set or a Reload has changed the mapping
C14_Witness ==
    /\ held # <<>>
    /\ ~held[1].touched
    /\ View(held[1].map) = held[1].snap
    /\ held[1].snap # data

\* C15: AddSource(s) puts s at the end of the source list and leaves the
\* sources registered before in their places; no step of the call calls
\* Load() on a source or changes the mapping or the cache, so that what the
\* new source defines is not in the mapping before a Reload
C15_AddSourceFrame ==
    [][\A p \in Procs :
          ((op[p].name = "AddSource" \/ op'[p].name = "AddSource") /\ pc'[p] # pc[p]) =>
              /\ data' = data
              /\ cache' = cache
              /\ loadLog' = loadLog
              /\ loadLog[p] = <<>>
              /\ sources' = IF pc[p] = "add_append"
                            THEN Append(sources, op[p].src)
                            ELSE sources]_vars

\* a second source was appended behind the first one and its keys are not
\* in the mapping, which is still the one New() loaded
C15_Witness ==
    \E p \in Procs :
        /\ pc[p] = "unlock"
        /\ op[p].name = "AddSource"
        /\ sources = <<"s2", op[p].src>>
        /\ W.src[op[p].src].err = NoError
        /\ \E k \in DOMAIN W.src[op[p].src].data :
              k \notin DOMAIN data \/ data[k] # W.src[op[p].src].data[k]
        /\ data = NewData(W)
        /\ cache = EmptyMap

\* C16: a Reload of a store without registered sources ends in the state
\* New() produces under the same files and process environment: the mapping
\* New() loads, an empty cache and an empty source list, and no error
C16_NewIsReload ==
    \A p \in Procs :
        (AtReloadEnd(p) /\ sources = <<>>) =>
            /\ data = NewData(W)
            /\ cache = EmptyMap
            /\ ret[p] = NoError

\* a Reload without sources ended after earlier calls or a change of the
\* files had taken the store away from what New() left
C16_Witness ==
    \E p \in Procs :
        /\ AtReloadEnd(p)
        /\ sources = <<>>
        /\ calls > 1
        /\ ~pristine
        /\ data = NewData(W)
        /\ cache = EmptyMap

(***************************************************************************)
(* GetStringMap over mappings with dotted keys                             *)
(***************************************************************************)
MapKeys ==
    {<<"A">>, <<"A", ".">>, <<"A", ".", "B">>, <<"A", ".", "B", ".", "C">>,
     <<"A", "B">>, <<".", "B">>, <<"B", ".", "A">>}

MapPrefixes == {<<"A">>, <<>>, <<"A", ".", "B">>}

\* the value a key has when it is in the mapping
MapValue(k) == IF k = <<"A", ".", "B">> THEN IntVal(7) ELSE StrVal(k)

MapOpSet ==
    {Op("GetStringMap", k, Nil, "") : k \in MapPrefixes}
    \cup {Op("Get", <<"A", ".", "B">>, Nil, "")}

\* a store whose mapping holds any of the keys
InitMap ==
    /\ world = 1
    /\ data \in {[k \in ks |-> MapValue(k)] : ks \in SUBSET MapKeys}
    /\ cache = EmptyMap
    /\ sources = <<>>
    /\ writer = 0
    /\ readers = {}
    /\ pc = [p \in Procs |-> "idle"]
    /\ op = [p \in Procs |-> NoOp]
    /\ ret = [p \in Procs |-> Nil]
    /\ val = [p \in Procs |-> Nil]
    /\ slot = [p \in Procs |-> <<>>]
    /\ idx = [p \in Procs |-> 0]
    /\ crashed = FALSE
    /\ held = <<>>
    /\ pendingSet = EmptyMap
    /\ chk = [p \in Procs |-> <<>>]
    /\ loadLog = [p \in Procs |-> <<>>]
    /\ dropped = [p \in Procs |-> <<>>]
    /\ prevData = <<>>
    /\ pristine = FALSE
    /\ oob = EmptyMap
    /\ calls = 0

NextMap ==
    \/ \E p \in Procs : \E o \in MapOpSet : RLock(p, o)
    \/ \E p \in Procs : RUnlock(p)
    \/ \E p \in Procs : GsmRead(p)
    \/ \E p \in Procs : GetCache(p)
    \/ \E p \in Procs : GetData(p)
    \/ \E p \in Procs : GetAssign(p)
    \/ \E p \in Procs : GetStore(p)
    \/ \E p \in Procs : MapFatal(p)

SpecMap == InitMap /\ [][NextMap]_vars

\* C17: GetStringMap(key) returns the map that has, for every key of the
\* mapping made of key, a dot and a remainder, an entry under the remainder
\* with the value the mapping holds for that key, and no other entry,
\* whatever the cache holds
C17_StringMap ==
    \A p \in Procs :
        (pc[p] = "runlock" /\ op[p].name = "GetStringMap") =>
            LET prefix == op[p].key \o <<".">>
            IN /\ \A k \in DOMAIN data :
                     \A r \in DOMAIN ret[p].m \cup {SubSeq(k, i, Len(k)) : i \in 1..(Len(k) + 1)} :
                        (k = prefix \o r) => (r \in DOMAIN ret[p].m /\ ret[p].m[r] = data[k])
               /\ \A r \in DOMAIN ret[p].m : (prefix \o r) \in DOMAIN data

\* GetStringMap("A") returned the entries of A., A.B and A.B.C, the int
\* value of A.B as an int, while the cache holds only A.B
C17_Witness ==
    \E p \in Procs :
        /\ pc[p] = "runlock"
        /\ op[p] = Op("GetStringMap", <<"A">>, Nil, "")
        /\ DOMAIN ret[p].m = {<<>>, <<"B">>, <<"B", ".", "C">>}
        /\ ret[p].m[<<"B">>] = IntVal(7)
        /\ DOMAIN data = MapKeys
        /\ DOMAIN cache = {<<"A", ".", "B">>}

(***************************************************************************)
(* GetStringSlice over all short values                                    *)
(***************************************************************************)
SliceAlphabet == {"a", "b", ",", " "}

\* the strings over SliceAlphabet of at most n characters
Strs(n) == UNION {[1..m -> SliceAlphabet] : m \in 0..n}

SliceInputs == {StrVal(s) : s \in Strs(MaxLen)} \cup {IntVal(7)}

\* a store whose mapping holds nothing or one of the values under kA
InitSlice ==
    /\ world = 1
    /\ data \in {EmptyMap} \cup {[k \in {kA} |-> v] : v \in SliceInputs}
    /\ cache = EmptyMap
    /\ sources = <<>>
    /\ writer = 0
    /\ readers = {}
    /\ pc = [p \in Procs |-> "idle"]
    /\ op = [p \in Procs |-> NoOp]
    /\ ret = [p \in Procs |-> Nil]
    /\ val = [p \in Procs |-> Nil]
    /\ slot = [p \in Procs |-> <<>>]
    /\ idx = [p \in Procs |-> 0]
    /\ crashed = FALSE
    /\ held = <<>>
    /\ pendingSet = EmptyMap
    /\ chk = [p \in Procs |-> <<>>]
    /\ loadLog = [p \in Procs |-> <<>>]
    /\ dropped = [p \in Procs |-> <<>>]
    /\ prevData = <<>>
    /\ pristine = FALSE
    /\ oob = EmptyMap
    /\ calls = 0

NextSlice ==
    \/ \E p \in Procs : RLock(p, Op("GetStringSlice", kA, Nil, ""))
    \/ \E p \in Procs : RUnlock(p)
    \/ \E p \in Procs : TgReturn(p)
    \/ \E p \in Procs : GetCache(p)
    \/ \E p \in Procs : GetData(p)
    \/ \E p \in Procs : GetAssign(p)
    \/ \E p \in Procs : GetStore(p)
    \/ \E p \in Procs : MapFatal(p)

SpecSlice == InitSlice /\ [][NextSlice]_vars

\* the j-th smallest element of the set of numbers S
Nth(S, j) == CHOOSE x \in S : Cardinality({y \in S : y < x}) = j - 1

\* the stretches of s between its commas, its ends counting as commas
CommaParts(s) ==
    LET cuts == {i \in 1..Len(s) : s[i] = ","} \cup {0, Len(s) + 1}
    IN [j \in 1..(Cardinality(cuts) - 1) |->
          SubSeq(s, Nth(cuts, j) + 1, Nth(cuts, j + 1) - 1)]

\* t without the white space around it
Stripped(t) ==
    LET inner == {i \in 1..Len(t) : t[i] \notin WhiteSpace}
    IN IF inner = {}
       THEN <<>>
       ELSE SubSeq(t, Nth(inner, 1), Nth(inner, Cardinality(inner)))

\* C18: GetStringSlice(k) returns the parts of the string form of k's value
\* between its commas, each without the white space around it, the parts
\* that are empty then left out and the others in their order; for a key
\* that is absent or has the empty string it returns the empty sequence
C18_StringSlice ==
    \A p \in Procs :
        (pc[p] = "tg_return" /\ op[p].name = "GetStringSlice") =>
            LET s == IF op[p].key \in DOMAIN data THEN Sprintv(data[op[p].key]) ELSE <<>>
                parts == CommaParts(s)
                kept == SelectSeq([j \in 1..Len(parts) |-> Stripped(parts[j])],
                                  LAMBDA x : x # <<>>)
            IN /\ ret[p] = SliceVal(kept)
               /\ s = <<>> => ret[p] = SliceVal(<<>>)

\* the value " a," gave the one part a: the blank was trimmed and the empty
\* part after the comma dropped
C18_Witness ==
    \E p \in Procs :
        /\ pc[p] = "tg_return"
        /\ op[p].name = "GetStringSlice"
        /\ op[p].key \in DOMAIN data
        /\ data[op[p].key] = StrVal(<<" ", "a", ",">>)
        /\ ret[p] = SliceVal(<< <<"a">> >>)

\* C19: a Reload that succeeds recomputes the mapping from nothing: it ends
\* with exactly the merge of the file layers, the process environment and
\* the registered sources and with an empty cache, so that of the mapping
\* it found a key no layer and no source defines is gone and a key they
\* define has their value again, whatever Set had stored
C19_ReloadRecomputes ==
    \A p \in Procs :
        (AtReloadEnd(p) /\ ret[p] = NoError) =>
            LET merged == WithSources(W, sources, Len(sources))
            IN /\ DOMAIN data = DOMAIN merged
               /\ cache = EmptyMap
               /\ dropped[p] # <<>>
               /\ \A k \in DOMAIN dropped[p][1] :
                     IF k \in DOMAIN merged
                     THEN k \in DOMAIN data /\ data[k] = merged[k]
                     ELSE k \notin DOMAIN data

\* a Reload succeeded on a mapping in which Set had stored B, which no layer
\* and no source defines, and had overwritten A: B is gone and A has its
\* layer value again
C19_Witness ==
    \E p \in Procs :
        /\ AtReloadEnd(p)
        /\ ret[p] = NoError
        /\ dropped[p] # <<>>
        /\ kB \in DOMAIN dropped[p][1]
        /\ kB \notin DOMAIN data
        /\ kA \in DOMAIN dropped[p][1]
        /\ dropped[p][1][kA] = StrVal(<<"x">>)
        /\ data[kA] = ByPrecedence(W)[kA]
        /\ data[kA] # StrVal(<<"x">>)

(***************************************************************************)
(* The line parser of loadEnvFile over all short lines                     *)
(***************************************************************************)
LineAlphabet == {"A", "=", "\"", "'", " "}

Lines == UNION {[1..m -> LineAlphabet] : m \in 0..MaxLine}

\* New() has made the maps and its loadEnvFile is about to scan a line
InitParse ==
    /\ world = 1
    /\ data = EmptyMap
    /\ cache = EmptyMap
    /\ sources = <<>>
    /\ writer = 0
    /\ readers = {}
    /\ pc = [p \in Procs |-> IF p = 1 THEN "scan" ELSE "idle"]
    /\ \E text \in Lines :
          op = [p \in Procs |-> IF p = 1 THEN Op("loadEnvFile", <<>>, StrVal(text), "") ELSE NoOp]
    /\ ret = [p \in Procs |-> Nil]
    /\ val = [p \in Procs |-> Nil]
    /\ slot = [p \in Procs |-> <<>>]
    /\ idx = [p \in Procs |-> 0]
    /\ crashed = FALSE
    /\ held = <<>>
    /\ pendingSet = EmptyMap
    /\ chk = [p \in Procs |-> <<>>]
    /\ loadLog = [p \in Procs |-> <<>>]
    /\ dropped = [p \in Procs |-> <<>>]
    /\ prevData = <<>>
    /\ pristine = FALSE
    /\ oob = EmptyMap
    /\ calls = 0

\* one round of the scanner loop
ScanLine(p) ==
    /\ pc[p] = "scan"
    /\ data' = loadLine(data, op[p].val.s)
    /\ pc' = [pc EXCEPT ![p] = "scanned"]
    /\ UNCHANGED <<world, held, cache, sources, lockVars, op, ret, localVars, crashed, histVars, calls>>

NextParse == \E p \in Procs : ScanLine(p)

SpecParse == InitParse /\ [][NextParse]_vars

\* v without one pair of quotes of the same kind around it, if it has one
StripOneLayer(v) ==
    IF Len(v) >= 2 /\ v[1] \in QuoteCutset /\ v[Len(v)] = v[1]
    THEN SubSeq(v, 2, Len(v) - 1)
    ELSE v

\* C20: a line with an = that is not blank and not a comment defines the key
\* that is the text before the first = without the white space around it,
\* with the value that is the text after it without the white space around
\* it and without one pair of quotes around that, the characters inside the
\* pair, quotes included, being kept
C20_ParseLine ==
    \A p \in Procs :
        pc[p] = "scanned" =>
            LET line == Stripped(op[p].val.s)
                eq == Index(line, "=")
            IN (line # <<>> /\ line[1] # "#" /\ eq # 0) =>
                  data = [k \in {Stripped(SubSeq(line, 1, eq - 1))} |->
                            StrVal(StripOneLayer(Stripped(SubSeq(line, eq + 1, Len(line)))))]

(***************************************************************************)
(* Termination.  Here a call begins before it has the lock: the goroutine  *)
(* waits inside c.mu.RLock() or c.mu.Lock() until the lock is given to it. *)
(* Which of the waiting goroutines gets the lock is left open; that each   *)
(* of them gets it in the end is the fairness of the lock.                 *)
(***************************************************************************)
LiveOpSet ==
    {Op("Get", k, Nil, "") : k \in GetKeys}
    \cup {Op("GetString", kA, Nil, ""), Op("GetInt", kA, Nil, ""), Op("Has", kB, Nil, "")}
    \cup {Op("All", <<>>, Nil, ""), Op("GetStringMap", kA, Nil, "")}
    \cup {Op("Set", kA, StrVal(<<"x">>), ""), Op("Reload", <<>>, Nil, "")}
    \cup {Op("AddSource", <<>>, Nil, s) : s \in SourceIds}

\* a method is called; its first statement is c.mu.RLock() or c.mu.Lock()
Call(p, o) ==
    /\ Enter(p, o)
    /\ pc' = [pc EXCEPT ![p] = IF o.name \in ReadOps THEN "rlock" ELSE "lock"]
    /\ UNCHANGED lockVars

\* c.mu.RLock() returns: no goroutine holds the write lock
RLockAcquire(p) ==
    /\ ~crashed
    /\ pc[p] = "rlock"
    /\ writer = 0
    /\ readers' = readers \cup {p}
    /\ pc' = [pc EXCEPT ![p] = CASE op[p].name \in GetOps -> "get_cache"
                                 [] op[p].name = "Has" -> "has_read"
                                 [] op[p].name = "All" -> "all_read"
                                 [] op[p].name = "GetStringMap" -> "gsm_read"]
    /\ UNCHANGED <<world, held, storeVars, writer, op, ret, localVars, crashed, histVars, calls>>

\* c.mu.Lock() returns: no goroutine holds the lock in either mode
LockAcquire(p) ==
    /\ ~crashed
    /\ pc[p] = "lock"
    /\ writer = 0
    /\ readers = {}
    /\ writer' = p
    /\ pc' = [pc EXCEPT ![p] = CASE op[p].name = "Set" -> "set_data"
                                 [] op[p].name = "Reload" -> "rl_cache"
                                 [] op[p].name = "AddSource" -> "add_append"]
    /\ UNCHANGED <<world, held, storeVars, readers, op, ret, localVars, crashed, histVars, calls>>

\* the statements of a method between getting the lock and returning,
\* except the call of loadEnvFiles
Statements(p) ==
    \/ RUnlock(p)
    \/ GsFormat(p)
    \/ GsReturn(p)
    \/ TgReturn(p)
    \/ Unlock(p)
    \/ GetCache(p)
    \/ GetData(p)
    \/ GetAssign(p)
    \/ GetStore(p)
    \/ HasRead(p)
    \/ AllRead(p)
    \/ GsmRead(p)
    \/ SetData(p)
    \/ SetCache(p)
    \/ AddAppend(p)
    \/ RlCache(p)
    \/ RlData(p)
    \/ RlEnv(p)
    \/ RlSource(p)

Body(p) == Statements(p) \/ RlFiles(p)

NextLive ==
    \/ \E p \in Procs : \E o \in LiveOpSet : Call(p, o)
    \/ \E p \in Procs : RLockAcquire(p)
    \/ \E p \in Procs : LockAcquire(p)
    \/ \E p \in Procs : Body(p)
    \/ \E p \in Procs : MapFatal(p)

\* where each goroutine is in its method; every step of a method changes it
position == <<pc, idx>>

\* c.loadEnvFiles() returns to Reload: the step RlFiles, seen on position
FilesLoaded(p) ==
    /\ ~crashed
    /\ pc[p] = "rl_files"
    /\ pc' = [pc EXCEPT ![p] = "rl_env"]
    /\ UNCHANGED idx

\* every goroutine goes on running its method (the reading of the files and
\* source.Load() included, which return), and a goroutine that waits for the
\* lock gets it if the lock stays free.  Nothing obliges the program to make
\* a call, or the runtime to notice a race.
Fairness ==
    \A p \in Procs :
        /\ WF_position(RLockAcquire(p) \/ LockAcquire(p) \/ Statements(p))
        /\ WF_position(FilesLoaded(p))

SpecLive == Init /\ [][NextLive]_vars /\ Fairness

\* p holds c.mu, in one mode or the other
Holds(p) == p \in readers \/ writer = p

\* no goroutine asks for the lock it holds, and none holds it once its
\* method has returned
LockDiscipline == \A p \in Procs : pc[p] \in {"idle", "rlock", "lock"} => ~Holds(p)

\* C21 without the races of Get: every call returns unless the runtime has
\* stopped the process, and the lock is never asked for by its holder nor
\* kept after a return
C21_ReturnsUnlessFatal ==
    /\ \A p \in Procs : (pc[p] # "idle") ~> (pc[p] = "idle" \/ crashed)
    /\ []LockDiscipline

\* C21: under a fair lock and with Load() calls that return, every call of
\* Get, a typed getter, Set, Has, All, GetStringMap, AddSource or Reload
\* returns in the end, whatever calls run at the same time; no method asks
\* for the lock while it holds it; and the lock is free of the caller after
\* every return, the error return of Reload included
C21_AllCallsReturn ==
    /\ \A p \in Procs : (pc[p] # "idle") ~> (pc[p] = "idle")
    /\ []LockDiscipline
    /\ [][\A p \in Procs : (AtReloadEnd(p) /\ ret[p] # NoError /\ pc'[p] = "idle") => writer' = 0]_vars

\* two calls of Get were running when the runtime stopped the process:
\* neither returns
C21_Witness ==
    /\ crashed
    /\ \A p \in Procs : p <= 2 => (pc[p] # "idle" /\ op[p].name = "Get")

====
